---- MODULE Spec2Model ----
(***************************************************************************)
(* Model of garmin_connection_app.py: a PyQt5 main window whose slots call *)
(* udev (block-device enumeration), a mount wrapper and BlueZ over the     *)
(* system bus.  Strings the code inspects or rewrites (vendor ids, file    *)
(* names, addresses, item texts) are sequences of one-character strings,   *)
(* so that hex(), lower(), endswith(), replace(), split() and the `in`     *)
(* test are computed as Python computes them.                              *)
(***************************************************************************)
EXTENDS Naturals, Sequences, FiniteSets, TLC

VARIABLES
    app,                    \* "constructing" | "running" | "crashed"
    raised,                 \* the exception that left a constructor or slot uncaught, or "none"
    bus_adapters,           \* environment: Adapter1 object paths, in GetManagedObjects order
    adapter_path,           \* BluetoothPairingManager.adapter_path
    fs,                     \* environment: files on the Garmin's filesystem (paths below the mount point)
    queue,                  \* Qt event queue: user input not yet delivered to a slot
    nEvents,                \* number of user inputs so far
    ui,                     \* the UI thread: idle, or inside a slot at a blocking call
    bluetooth_device_list,  \* QListWidget on the Bluetooth tab (item texts)
    usb_device_list,        \* QListWidget on the USB tab (item texts)
    btCalls,                \* adapter/bus calls made by the most recent discover_garmin_devices
    lastBt,                 \* what the most recent discover_garmin_devices returned
    lastUsb,                \* what the most recent detect_usb_devices returned
    udev,                   \* the partitions udev enumerated for the most recent USB scan
    hadItems,               \* whether each list showed items when its most recent scan began
    inFlight,               \* mount / Pair calls that have been issued and have not returned
    req                     \* the current or most recent connection request (double click)

vars == <<app, raised, bus_adapters, adapter_path, fs, queue, nEvents, ui,
          bluetooth_device_list, usb_device_list, btCalls, lastBt, lastUsb,
          udev, hadItems, inFlight, req>>

----------------------------------------------------------------------------
(* Bounds of the model *)

\* user inputs (clicks, double clicks) in one run
MaxEvents == 3
\* inputs waiting in the event queue while a slot blocks
MaxQueue == 2
\* devices (partitions, Device1 objects) the environment shows to one scan of
\* the running application, and files a device mounted by it holds
MaxShown == 2
\* partitions udev enumerates in one scan, where the scan is checked alone
MaxParts == 2
\* length of the transport's scripted answers to successive open attempts
MaxScript == 3
\* depth of directories below the mount point
MaxDepth == 2
\* files on the mounted filesystem, where the file search is checked alone
MaxFiles == 3

----------------------------------------------------------------------------
(* Python string operations, on sequences of characters *)

UpperAlpha == <<"A","B","C","D","E","F","G","H","I","J","K","L","M",
                "N","O","P","Q","R","S","T","U","V","W","X","Y","Z">>

LowerAlpha == <<"a","b","c","d","e","f","g","h","i","j","k","l","m",
                "n","o","p","q","r","s","t","u","v","w","x","y","z">>

LowerChar(c) ==
    IF \E i \in 1..26 : UpperAlpha[i] = c
    THEN LowerAlpha[CHOOSE i \in 1..26 : UpperAlpha[i] = c]
    ELSE c

\* str.lower()
Lower(s) == [i \in 1..Len(s) |-> LowerChar(s[i])]

\* str.endswith(suffix)
EndsWith(s, suffix) ==
    /\ Len(s) >= Len(suffix)
    /\ SubSeq(s, Len(s) - Len(suffix) + 1, Len(s)) = suffix

\* sub in s
Contains(sub, s) ==
    \E i \in 0..Len(s) :
        /\ i + Len(sub) <= Len(s)
        /\ SubSeq(s, i + 1, i + Len(sub)) = sub

\* str.replace(old, new) for one-character old and new
Replace(s, old, new) == [i \in 1..Len(s) |-> IF s[i] = old THEN new ELSE s[i]]

\* str.split(sep)[0]: the text before the first occurrence of sep, or all of it
SplitFirst(s, sep) ==
    LET hits == {i \in 1..Len(s) :
                    /\ i + Len(sep) - 1 <= Len(s)
                    /\ SubSeq(s, i, i + Len(sep) - 1) = sep}
    IN  IF hits = {} THEN s
        ELSE SubSeq(s, 1, (CHOOSE i \in hits : \A j \in hits : i <= j) - 1)

HexDigit == <<"0","1","2","3","4","5","6","7","8","9","a","b","c","d","e","f">>

RECURSIVE HexDigits(_)
HexDigits(n) ==
    IF n < 16 THEN <<HexDigit[n + 1]>>
    ELSE HexDigits(n \div 16) \o <<HexDigit[(n % 16) + 1]>>

\* hex(n): "0x" and the digits of n, lower case, no leading zeros
Hex(n) == <<"0", "x">> \o HexDigits(n)

\* dict.get(key, default) / device.get(key, default)
Get(d, key, default) == IF key \in DOMAIN d THEN d[key] ELSE default

Sep == <<" ", "-", " ">>

----------------------------------------------------------------------------
(* GarminDeviceManager *)

GARMIN_USB_VENDOR_ID == 2334

GARMIN_MOUNTPOINT == <<"/","m","n","t","/","g","a","r","m","i","n">>

DefaultLabel == <<"G","a","r","m","i","n"," ","D","e","v","i","c","e">>

\* the vendor string detect_usb_devices compares ID_VENDOR_ID with
VendorKey == SubSeq(Hex(GARMIN_USB_VENDOR_ID), 3, Len(Hex(GARMIN_USB_VENDOR_ID)))

IsGarminPartition(device) == Get(device.props, "ID_VENDOR_ID", <<>>) = VendorKey

Descriptor(device) ==
    [device_path |-> device.device_node,
     mount_path  |-> GARMIN_MOUNTPOINT,
     label       |-> Get(device.props, "ID_FS_LABEL", DefaultLabel)]

RECURSIVE detect_usb_devices(_)
detect_usb_devices(parts) ==
    IF parts = <<>> THEN <<>>
    ELSE (IF IsGarminPartition(Head(parts)) THEN <<Descriptor(Head(parts))>> ELSE <<>>)
         \o detect_usb_devices(Tail(parts))

\* mount_device: os.makedirs and mount.mount raise or not; every Exception is
\* caught and turned into False
mount_device(outcome) == outcome = "ok"

FitSuffix == <<".", "f", "i", "t">>

IsFitNameCaseSensitive(f) == EndsWith(f, FitSuffix)

IsFitName(f) == EndsWith(Lower(f), FitSuffix)

\* a set of paths as a list, in the order the directory scan happens to give
RECURSIVE ListOf(_)
ListOf(S) ==
    IF S = {} THEN <<>>
    ELSE LET x == CHOOSE y \in S : TRUE IN <<x>> \o ListOf(S \ {x})

RECURSIVE Concat(_)
Concat(lists) == IF lists = <<>> THEN <<>> ELSE Head(lists) \o Concat(Tail(lists))

\* the entries of directory `root` that os.walk reports as files
FilesIn(tree, root) ==
    {p[Len(root) + 1] : p \in {q \in tree : Len(q) = Len(root) + 1
                                            /\ SubSeq(q, 1, Len(root)) = root}}

\* the entries of directory `root` that os.walk reports as directories
DirsIn(tree, root) ==
    {p[Len(root) + 1] : p \in {q \in tree : Len(q) > Len(root) + 1
                                            /\ SubSeq(q, 1, Len(root)) = root}}

\* the matching files of one directory, then those of its subdirectories
RECURSIVE WalkFit(_, _)
WalkFit(tree, root) ==
    LET here == ListOf({Append(root, f) : f \in {g \in FilesIn(tree, root) : IsFitName(g)}})
        subs == ListOf(DirsIn(tree, root))
    IN  here \o Concat([i \in 1..Len(subs) |-> WalkFit(tree, Append(root, subs[i]))])

\* extract_fit_files(mount_point) over the files mounted there; `tree` holds
\* absolute paths (lists of components, the mount point first)
extract_fit_files(tree, mount_point) == WalkFit(tree, <<mount_point>>)

----------------------------------------------------------------------------
(* BluetoothPairingManager *)

Adapter1 == "org.bluez.Adapter1"

Device1 == "org.bluez.Device1"

Hci0 == <<"/","o","r","g","/","b","l","u","e","z","/","h","c","i","0">>

Hci1 == <<"/","o","r","g","/","b","l","u","e","z","/","h","c","i","1">>

DevInfix == <<"/","d","e","v","_">>

GarminToken == <<"G","a","r","m","i","n">>

\* _get_bluetooth_adapter over the reply of GetManagedObjects (a list of
\* [path, interfaces] in the reply's order): the first object that has the
\* Adapter1 interface, or the Exception raised when there is none
get_bluetooth_adapter(objects) ==
    LET hits == {i \in 1..Len(objects) : Adapter1 \in DOMAIN objects[i].interfaces}
    IN  IF hits = {}
        THEN [raises |-> TRUE, path |-> <<>>]
        ELSE [raises |-> FALSE,
              path |-> objects[CHOOSE i \in hits : \A j \in hits : i <= j].path]

\* the loop of discover_garmin_devices over the reply of GetManagedObjects
RECURSIVE garmin_devices(_)
garmin_devices(objects) ==
    IF objects = <<>> THEN <<>>
    ELSE LET interfaces == Head(objects).interfaces
             device == interfaces[Device1]
         IN  (IF Device1 \in DOMAIN interfaces
                 /\ Contains(GarminToken, Get(device, "Name", <<>>))
              THEN <<[address |-> Get(device, "Address", <<>>),
                      name    |-> Get(device, "Name", <<>>)]>>
              ELSE <<>>)
             \o garmin_devices(Tail(objects))

Call(name, ok) == [call |-> name, ok |-> ok]

\* discover_garmin_devices up to the sleep: StartDiscovery, which may raise
discover_start(startOk) ==
    IF startOk THEN <<Call("StartDiscovery", TRUE), Call("sleep", TRUE)>>
    ELSE <<Call("StartDiscovery", FALSE)>>

\* the bus objects read while the radio is still discovering
discover_finish_enumerate_first(stopOk, getOk, objects) ==
    [calls  |-> <<Call("GetManagedObjects", getOk)>>
                \o (IF getOk THEN <<Call("StopDiscovery", stopOk)>> ELSE <<>>),
     result |-> IF stopOk /\ getOk THEN garmin_devices(objects) ELSE <<>>]

\* discover_garmin_devices after the sleep: StopDiscovery, then
\* GetManagedObjects and the filter; an exception at any call returns []
discover_finish(stopOk, getOk, objects) ==
    [calls  |-> <<Call("StopDiscovery", stopOk)>>
                \o (IF stopOk THEN <<Call("GetManagedObjects", getOk)>> ELSE <<>>),
     result |-> IF stopOk /\ getOk THEN garmin_devices(objects) ELSE <<>>]

\* the object path pair_device asks the bus for
pair_path(device_address) ==
    Hci0 \o DevInfix \o Replace(device_address, ":", "_")

\* pair_device: get_object and Pair raise or not; every Exception is caught
\* and turned into False
pair_device(outcome) == outcome = "ok"

\* a call that tries again, up to 3 times, while the answer is DeviceBusy
open_transport_retrying(script) ==
    LET tries == 1..(IF Len(script) < 3 THEN Len(script) ELSE 3)
        last == CHOOSE i \in tries :
                    /\ i = Len(script) \/ i = 3 \/ script[i] # "DeviceBusy"
                    /\ \A j \in 1..(i - 1) : script[j] = "DeviceBusy"
    IN  [attempts |-> last, outcome |-> script[last]]

\* one call of mount_device or pair_device for a transport that would answer
\* successive open attempts with `script`: the number of attempts made and
\* the value returned
open_transport(script) == [attempts |-> 1, outcome |-> Head(script)]

----------------------------------------------------------------------------
(* GarminConnectionApp: texts of the list items *)

BluetoothItem(device) == device.address \o Sep \o device.name

UsbItem(device) == device.device_path \o Sep \o device.label

\* the texts addItem is called with, one per device, in the order returned
BluetoothItems(devices) == [i \in 1..Len(devices) |-> BluetoothItem(devices[i])]

UsbItems(devices) == [i \in 1..Len(devices) |-> UsbItem(devices[i])]

NotCleared(list) == list

\* QListWidget.clear()
Cleared(list) == <<>>

ExtractAlways(mounted) == TRUE

\* the slot calls extract_fit_files only when mount_device returned True
ShouldExtract(mounted) == mounted

DispatchAnyTime == TRUE

\* Qt delivers queued input to a slot only when the UI thread is back in the
\* event loop: every slot runs its blocking calls on the UI thread
CanDispatch == ui.h = "idle"

----------------------------------------------------------------------------
(* The environment: what udev, the bus, the mount call and the device's
   filesystem can present to the program *)

SeqsUpTo(S, n) == UNION {[1..k -> S] : k \in 0..n}

V091e == <<"0","9","1","e">>

V0781 == <<"0","7","8","1">>

V91e == <<"9","1","e">>

LabelGarmin == <<"G","A","R","M","I","N">>

\* /dev/sdb1, /dev/sdc1, ...
Node(i) == <<"/","d","e","v","/","s","d", LowerAlpha[i + 1], "1">>

\* ID_VENDOR_ID as udev's usb_id writes it: four hex digits, or absent for a
\* partition that is not on USB
UsbIds == {V091e, V0781}

\* ID_VENDOR_ID as the udev database can hold it: a rule may set any string
AnyIds == UsbIds \cup {V91e}

LabelProps == {<<>>, "ID_FS_LABEL" :> LabelGarmin}

PartProps(ids) ==
    {v @@ l : v \in {<<>>} \cup {"ID_VENDOR_ID" :> id : id \in ids}, l \in LabelProps}

\* the partitions one enumeration lists: up to n, at distinct device nodes
RECURSIVE Partitions(_)
Partitions(ps) ==
    IF ps = <<>> THEN <<>>
    ELSE Append(Partitions(SubSeq(ps, 1, Len(ps) - 1)),
                [device_node |-> Node(Len(ps)), props |-> ps[Len(ps)]])

UdevSnapshots(ids, n) == {Partitions(ps) : ps \in SeqsUpTo(PartProps(ids), n)}

AdapterLists == {<<>>, <<Hci0>>, <<Hci1>>, <<Hci0, Hci1>>, <<Hci1, Hci0>>}

Addresses == {<<"A",":","1">>, <<"A",":","2">>}

DeviceProps ==
    {[Address |-> a] : a \in Addresses}
    \cup {[Address |-> a, Name |-> n] : a \in Addresses,
                                        n \in {GarminToken, <<"P","o","l","a","r">>}}

AdapterObject(a) == [path |-> a, interfaces |-> (Adapter1 :> <<>>)]

\* BlueZ keeps a device under the adapter that knows it
DeviceObject(a, props) ==
    [path |-> a \o DevInfix \o Replace(props.Address, ":", "_"),
     interfaces |-> (Device1 :> props)]

\* replies of GetManagedObjects after a discovery: the adapters, then up to
\* n devices under them, no two at the same path
BusReplies(adapters, n) ==
    LET adapterObjects == [i \in 1..Len(adapters) |-> AdapterObject(adapters[i])]
        deviceObjects == {DeviceObject(adapters[i], p) :
                             i \in 1..Len(adapters), p \in DeviceProps}
        lists == {ds \in SeqsUpTo(deviceObjects, n) :
                     \A i, j \in 1..Len(ds) : i # j => ds[i].path # ds[j].path}
    IN  {adapterObjects \o ds : ds \in lists}

Outcomes == {"ok", "DeviceBusy", "PermissionDenied"}

\* what the transport would answer to successive open attempts: DeviceBusy
\* some number of times, then a last answer
Scripts ==
    {s \in SeqsUpTo(Outcomes, MaxScript) :
        /\ s # <<>>
        /\ \A i \in 1..(Len(s) - 1) : s[i] = "DeviceBusy"}

FileNames == {<<"a",".","F","I","T">>, <<"b",".","f","i","t">>,
              <<"c",".","t","x","t">>, <<"f","i","t">>}

DirNames == {<<"d",".","f","i","t">>}

\* every file path at most `depth` directories below the mount point
FilePaths(depth) ==
    {<<GARMIN_MOUNTPOINT>> \o ds \o <<f>> :
        ds \in SeqsUpTo(DirNames, depth), f \in FileNames}

\* the filesystems a Garmin can hold: at most n files, at most `depth`
\* directories deep
Trees(depth, n) == {t \in SUBSET FilePaths(depth) : Cardinality(t) <= n}

\* what the application meets: any vendor string, files at the top level
ShownSnapshots == UdevSnapshots(AnyIds, MaxShown)

ShownTrees == Trees(0, MaxShown)

\* what a scan meets: partitions as udev's usb_id describes them
ScanSnapshots == UdevSnapshots(UsbIds, MaxParts)

\* what a search for FIT files meets: files in directories
WalkTrees == Trees(MaxDepth, MaxFiles)

----------------------------------------------------------------------------
(* State *)

Idle == [h |-> "idle", pc |-> "event loop"]

NoRequest ==
    [kind |-> "none", target |-> <<>>, path |-> <<>>, concurrent |-> FALSE,
     previous |-> "none", script |-> <<>>, attempts |-> 0, result |-> "none",
     extracted |-> FALSE, fit_files |-> <<>>, message |-> "none"]

Init ==
    /\ app = "constructing"
    /\ raised = "none"
    /\ bus_adapters \in AdapterLists
    /\ adapter_path = <<>>
    /\ fs = {}
    /\ queue = <<>>
    /\ nEvents = 0
    /\ ui = Idle
    /\ bluetooth_device_list = <<>>
    /\ usb_device_list = <<>>
    /\ btCalls = <<>>
    /\ lastBt = <<>>
    /\ lastUsb = <<>>
    /\ udev = <<>>
    /\ hadItems = [bluetooth |-> FALSE, usb |-> FALSE]
    /\ inFlight = <<>>
    /\ req = NoRequest

----------------------------------------------------------------------------
(* Construction: main() builds the window, whose __init__ builds the two
   managers; nothing catches what their constructors raise *)

Construct ==
    /\ app = "constructing"
    /\ \E busOk, getOk, udevOk \in BOOLEAN :
        LET objects == [i \in 1..Len(bus_adapters) |-> AdapterObject(bus_adapters[i])]
            found == get_bluetooth_adapter(objects)
            exc == IF ~busOk THEN "DBusException: SystemBus"
                   ELSE IF ~getOk THEN "DBusException: GetManagedObjects"
                   ELSE IF found.raises THEN "Exception: No Bluetooth adapter found"
                   ELSE IF ~udevOk THEN "pyudev: Context"
                   ELSE "none"
        IN  /\ raised' = exc
            /\ app' = IF exc = "none" THEN "running" ELSE "crashed"
            /\ adapter_path' = IF busOk /\ getOk THEN found.path ELSE <<>>
    /\ UNCHANGED <<bus_adapters, fs, queue, nEvents, ui, bluetooth_device_list,
                   usb_device_list, btCalls, lastBt, lastUsb, udev, hadItems,
                   inFlight, req>>

----------------------------------------------------------------------------
(* User input.  A click or double click is queued by Qt and delivered when
   the UI thread returns to the event loop; a double click is on a row, and
   the item at that row is looked up on delivery. *)

Connecting == ui.h \in {"pair_bluetooth_device", "mount_usb_device"}

Input(sig, row) ==
    [sig |-> sig, row |-> row, busy |-> Connecting,
     during |-> IF Connecting THEN req.target ELSE <<>>]

Buttons == {"bluetooth_discover_btn", "usb_discover_btn"}

Lists == {"bluetooth_device_list", "usb_device_list"}

\* the user clicks one of `buttons` or double-clicks one of the first `rows`
\* rows of one of `lists`
UserInput(buttons, lists, rows) ==
    /\ app = "running"
    /\ nEvents < MaxEvents
    /\ Len(queue) < MaxQueue
    /\ \E e \in {Input(b, 0) : b \in buttons}
                \cup {Input(l, r) : l \in lists, r \in 1..rows} :
            queue' = Append(queue, e)
    /\ nEvents' = nEvents + 1
    /\ UNCHANGED <<app, raised, bus_adapters, adapter_path, fs, ui,
                   bluetooth_device_list, usb_device_list, btCalls, lastBt,
                   lastUsb, udev, hadItems, inFlight, req>>

Delivered(sig) ==
    /\ app = "running"
    /\ CanDispatch
    /\ queue # <<>>
    /\ Head(queue).sig = sig
    /\ queue' = Tail(queue)

ListOfSig(sig) ==
    IF sig = "bluetooth_device_list" THEN bluetooth_device_list ELSE usb_device_list

\* a double click where the list has no item emits no itemDoubleClicked
NoItemClicked ==
    /\ \E sig \in Lists :
        /\ Delivered(sig)
        /\ Head(queue).row > Len(ListOfSig(sig))
    /\ UNCHANGED <<app, raised, bus_adapters, adapter_path, fs, nEvents, ui,
                   bluetooth_device_list, usb_device_list, btCalls, lastBt,
                   lastUsb, udev, hadItems, inFlight, req>>

----------------------------------------------------------------------------
(* Slots of the Bluetooth tab *)

\* discover_bluetooth_devices up to the sleep inside discover_garmin_devices
discover_bluetooth_devices_begin ==
    /\ Delivered("bluetooth_discover_btn")
    /\ bluetooth_device_list' = Cleared(bluetooth_device_list)
    /\ \E startOk \in BOOLEAN :
        /\ btCalls' = discover_start(startOk)
        /\ IF startOk
           THEN /\ ui' = [h |-> "discover_bluetooth_devices", pc |-> "sleep"]
                /\ lastBt' = lastBt
           ELSE /\ ui' = Idle
                /\ lastBt' = <<>>
    /\ hadItems' = [hadItems EXCEPT !.bluetooth = bluetooth_device_list # <<>>]
    /\ UNCHANGED <<app, raised, bus_adapters, adapter_path, fs, nEvents,
                   usb_device_list, lastUsb, udev, inFlight, req>>

\* discover_bluetooth_devices from the end of the sleep to its return
discover_bluetooth_devices_end(replies) ==
    /\ app = "running"
    /\ ui = [h |-> "discover_bluetooth_devices", pc |-> "sleep"]
    /\ \E stopOk, getOk \in BOOLEAN :
        \E objects \in (IF stopOk /\ getOk THEN replies ELSE {<<>>}) :
        LET r == discover_finish(stopOk, getOk, objects)
        IN  /\ btCalls' = btCalls \o r.calls
            /\ lastBt' = r.result
            /\ bluetooth_device_list' =
                    bluetooth_device_list \o BluetoothItems(r.result)
    /\ ui' = Idle
    /\ UNCHANGED <<app, raised, bus_adapters, adapter_path, fs, queue, nEvents,
                   usb_device_list, lastUsb, udev, hadItems, inFlight, req>>

Request(kind, target, path, script) ==
    [kind |-> kind, target |-> target, path |-> path,
     concurrent |-> Head(queue).busy /\ Head(queue).during = target,
     previous |-> IF req.target = target THEN req.result ELSE "none",
     script |-> script, attempts |-> 0, result |-> "pending",
     extracted |-> FALSE, fit_files |-> <<>>, message |-> "none"]

\* pair_bluetooth_device up to the Pair call inside pair_device
pair_bluetooth_device_begin ==
    /\ Delivered("bluetooth_device_list")
    /\ Head(queue).row <= Len(bluetooth_device_list)
    /\ LET device_info == bluetooth_device_list[Head(queue).row]
           device_address == SplitFirst(device_info, Sep)
       IN  /\ \E script \in Scripts :
                req' = Request("bluetooth", device_address,
                               pair_path(device_address), script)
           /\ inFlight' = Append(inFlight, [call |-> "Pair", target |-> device_address])
    /\ ui' = [h |-> "pair_bluetooth_device", pc |-> "Pair"]
    /\ UNCHANGED <<app, raised, bus_adapters, adapter_path, fs, nEvents,
                   bluetooth_device_list, usb_device_list, btCalls, lastBt,
                   lastUsb, udev, hadItems>>

\* pair_bluetooth_device from the return of the Pair call
pair_bluetooth_device_end ==
    /\ app = "running"
    /\ ui = [h |-> "pair_bluetooth_device", pc |-> "Pair"]
    /\ LET r == open_transport(req.script)
           paired == pair_device(r.outcome)
       IN  req' = [req EXCEPT !.attempts = r.attempts,
                              !.result = IF paired THEN "success" ELSE "failed",
                              !.message = IF paired THEN "Pairing Successful" ELSE "none"]
    /\ inFlight' = Tail(inFlight)
    /\ ui' = Idle
    /\ UNCHANGED <<app, raised, bus_adapters, adapter_path, fs, queue, nEvents,
                   bluetooth_device_list, usb_device_list, btCalls, lastBt,
                   lastUsb, udev, hadItems>>

----------------------------------------------------------------------------
(* Slots of the USB tab *)

\* discover_usb_devices when the enumeration works
discover_usb_devices(snapshots) ==
    /\ Delivered("usb_discover_btn")
    /\ \E parts \in snapshots :
        /\ udev' = parts
        /\ lastUsb' = detect_usb_devices(parts)
        /\ usb_device_list' =
                Cleared(usb_device_list) \o UsbItems(detect_usb_devices(parts))
    /\ hadItems' = [hadItems EXCEPT !.usb = usb_device_list # <<>>]
    /\ UNCHANGED <<app, raised, bus_adapters, adapter_path, fs, nEvents, ui,
                   bluetooth_device_list, btCalls, lastBt, inFlight, req>>

\* discover_usb_devices when the enumeration raises: the slot has no handler,
\* and PyQt either prints the traceback and goes on or aborts the process
discover_usb_devices_raises ==
    /\ Delivered("usb_discover_btn")
    /\ usb_device_list' = Cleared(usb_device_list)
    /\ udev' = <<>>
    /\ lastUsb' = <<>>
    /\ raised' = "pyudev: list_devices"
    /\ hadItems' = [hadItems EXCEPT !.usb = usb_device_list # <<>>]
    /\ app' \in {"running", "crashed"}
    /\ UNCHANGED <<bus_adapters, adapter_path, fs, nEvents, ui,
                   bluetooth_device_list, btCalls, lastBt, inFlight, req>>

\* mount_usb_device up to the mount call inside mount_device
mount_usb_device_begin ==
    /\ Delivered("usb_device_list")
    /\ Head(queue).row <= Len(usb_device_list)
    /\ LET device_info == usb_device_list[Head(queue).row]
           device_path == SplitFirst(device_info, Sep)
       IN  /\ \E script \in Scripts :
                req' = Request("usb", device_path, <<>>, script)
           /\ inFlight' = Append(inFlight, [call |-> "mount", target |-> device_path])
    /\ ui' = [h |-> "mount_usb_device", pc |-> "mount"]
    /\ UNCHANGED <<app, raised, bus_adapters, adapter_path, fs, nEvents,
                   bluetooth_device_list, usb_device_list, btCalls, lastBt,
                   lastUsb, udev, hadItems>>

\* mount_usb_device from the return of the mount call: the device's files
\* appear under the mount point when it worked
mount_usb_device_end(trees) ==
    /\ app = "running"
    /\ ui = [h |-> "mount_usb_device", pc |-> "mount"]
    /\ \E tree \in (IF mount_device(open_transport(req.script).outcome)
                     THEN trees ELSE {fs}) :
        LET r == open_transport(req.script)
            mounted == mount_device(r.outcome)
            visible == IF mounted THEN tree ELSE fs
            fit_files == IF ShouldExtract(mounted)
                         THEN extract_fit_files(visible, GARMIN_MOUNTPOINT)
                         ELSE <<>>
        IN  /\ fs' = visible
            /\ req' = [req EXCEPT
                         !.attempts = r.attempts,
                         !.result = IF mounted THEN "success" ELSE "failed",
                         !.extracted = ShouldExtract(mounted),
                         !.fit_files = fit_files,
                         !.message = IF ~ShouldExtract(mounted) THEN "none"
                                     ELSE IF fit_files # <<>> THEN "USB Device Mounted"
                                     ELSE "No FIT Files"]
    /\ inFlight' = Tail(inFlight)
    /\ ui' = Idle
    /\ UNCHANGED <<app, raised, bus_adapters, adapter_path, queue, nEvents,
                   bluetooth_device_list, usb_device_list, btCalls, lastBt,
                   lastUsb, udev, hadItems>>

----------------------------------------------------------------------------

(* The application, from construction on.  The files of a mounted device lie
   at the top of its filesystem here; deeper trees are searched in SpecWalk. *)

Next ==
    \/ Construct
    \/ UserInput(Buttons, Lists, MaxShown)
    \/ NoItemClicked
    \/ discover_bluetooth_devices_begin
    \/ discover_bluetooth_devices_end(BusReplies(bus_adapters, MaxShown))
    \/ pair_bluetooth_device_begin
    \/ pair_bluetooth_device_end
    \/ discover_usb_devices(ShownSnapshots)
    \/ discover_usb_devices_raises
    \/ mount_usb_device_begin
    \/ mount_usb_device_end(ShownTrees)

Spec == Init /\ [][Next]_vars

----------------------------------------------------------------------------
(* The USB scan alone: the running application, its scan button clicked any
   number of times, udev listing up to MaxParts partitions with the vendor
   ids usb_id writes *)

InitScan ==
    /\ app = "running"
    /\ raised = "none"
    /\ bus_adapters = <<Hci0>>
    /\ adapter_path = Hci0
    /\ fs = {}
    /\ queue = <<>>
    /\ nEvents = 0
    /\ ui = Idle
    /\ bluetooth_device_list = <<>>
    /\ usb_device_list = <<>>
    /\ btCalls = <<>>
    /\ lastBt = <<>>
    /\ lastUsb = <<>>
    /\ udev = <<>>
    /\ hadItems = [bluetooth |-> FALSE, usb |-> FALSE]
    /\ inFlight = <<>>
    /\ req = NoRequest

NextScan ==
    \/ UserInput({"usb_discover_btn"}, {}, 0)
    \/ discover_usb_devices(ScanSnapshots)

SpecScan == InitScan /\ [][NextScan]_vars

----------------------------------------------------------------------------
(* The file search alone: the running application after a scan that listed
   one partition and a double click on its item, at the mount call; the
   device holds up to MaxFiles files *)

ListedPartition == [device_node |-> Node(1), props |-> ("ID_VENDOR_ID" :> V91e)]

InitWalk ==
    /\ app = "running"
    /\ raised = "none"
    /\ bus_adapters = <<Hci0>>
    /\ adapter_path = Hci0
    /\ fs = {}
    /\ queue = <<>>
    /\ nEvents = 2
    /\ bluetooth_device_list = <<>>
    /\ btCalls = <<>>
    /\ lastBt = <<>>
    /\ udev = <<ListedPartition>>
    /\ lastUsb = detect_usb_devices(udev)
    /\ usb_device_list = UsbItems(lastUsb)
    /\ hadItems = [bluetooth |-> FALSE, usb |-> FALSE]
    /\ ui = [h |-> "mount_usb_device", pc |-> "mount"]
    /\ inFlight = <<[call |-> "mount", target |-> Node(1)]>>
    /\ \E script \in Scripts :
        req = [NoRequest EXCEPT !.kind = "usb", !.target = Node(1),
                                !.script = script, !.result = "pending"]

NextWalk == mount_usb_device_end(WalkTrees)

SpecWalk == InitWalk /\ [][NextWalk]_vars

----------------------------------------------------------------------------
(* Properties *)

RECURSIVE GarminDescriptors(_)
GarminDescriptors(parts) ==
    IF parts = <<>> THEN <<>>
    ELSE LET d == Head(parts)
         IN  (IF "ID_VENDOR_ID" \in DOMAIN d.props /\ d.props["ID_VENDOR_ID"] = V091e
              THEN <<[device_path |-> d.device_node,
                      mount_path  |-> GARMIN_MOUNTPOINT,
                      label       |-> IF "ID_FS_LABEL" \in DOMAIN d.props
                                      THEN d.props["ID_FS_LABEL"] ELSE DefaultLabel]>>
              ELSE <<>>)
             \o GarminDescriptors(Tail(parts))

\* C1: a USB scan returns one descriptor for every enumerated partition whose
\* ID_VENDOR_ID is '091e' (labelled "Garmin Device" when the partition has no
\* filesystem label) and none for any other partition.
C1_GarminPartitionsDetected == lastUsb = GarminDescriptors(udev)

EndsInFit(name) ==
    /\ Len(name) >= 4
    /\ name[Len(name) - 3] = "."
    /\ name[Len(name) - 2] \in {"f", "F"}
    /\ name[Len(name) - 1] \in {"i", "I"}
    /\ name[Len(name)] \in {"t", "T"}

FitPaths(tree) == {p \in tree : EndsInFit(p[Len(p)])}

Searched == req.kind = "usb" /\ req.extracted

\* C2: the file search over a mounted tree returns exactly the files, at any
\* depth, whose name ends in '.fit' whatever the case of its letters, each
\* once, and no other file; when none matches it returns the empty list and
\* the request still ends as a success ("No FIT Files").
C2_ExactlyTheFitFiles ==
    Searched =>
        /\ {req.fit_files[i] : i \in 1..Len(req.fit_files)} = FitPaths(fs)
        /\ Len(req.fit_files) = Cardinality(FitPaths(fs))
        /\ FitPaths(fs) = {} =>
                /\ req.fit_files = <<>>
                /\ req.result = "success"
                /\ req.message = "No FIT Files"

AtMount(name) == <<GARMIN_MOUNTPOINT, name>>

C2_Example ==
    /\ Searched
    /\ fs = {AtMount(<<"a",".","F","I","T">>), AtMount(<<"b",".","f","i","t">>),
             AtMount(<<"c",".","t","x","t">>)}
    /\ Len(req.fit_files) = 2

Completed == req.result \in {"success", "failed"}

BusyTwiceThenOk == <<"DeviceBusy", "DeviceBusy", "ok">>

C6_NoRawException == raised = "none"

CallNames == [i \in 1..Len(btCalls) |-> btCalls[i].call]

DiscoveryOrder == <<"StartDiscovery", "sleep", "StopDiscovery", "GetManagedObjects">>

Discovering == ui.h = "discover_bluetooth_devices"

\* C8: the calls of a Bluetooth discovery happen in the order StartDiscovery,
\* wait, StopDiscovery, GetManagedObjects, each only after the one before it
\* succeeded; once StartDiscovery has succeeded, StopDiscovery has been called
\* by the time the discovery returns, also when a later call fails and the
\* empty list is returned.
C8_StopBeforeEnumerate ==
    /\ Len(btCalls) <= 4
    /\ CallNames = SubSeq(DiscoveryOrder, 1, Len(btCalls))
    /\ \A i \in 1..(Len(btCalls) - 1) : btCalls[i].ok
    /\ (~Discovering /\ btCalls # <<>> /\ btCalls[1].ok) =>
            (Len(btCalls) >= 3 /\ btCalls[3].call = "StopDiscovery")
    /\ (~Discovering /\ \E i \in 1..Len(btCalls) : ~btCalls[i].ok) => lastBt = <<>>

C8_EnumerationFailed ==
    /\ ~Discovering
    /\ Len(btCalls) = 4
    /\ ~btCalls[4].ok
    /\ btCalls[3] = Call("StopDiscovery", TRUE)
    /\ lastBt = <<>>

C10_PairsUnderResolvedAdapter ==
    req.kind = "bluetooth" =>
        req.path = adapter_path \o DevInfix \o Replace(req.target, ":", "_")

====
